---- MODULE Spec2Model ----
(***************************************************************************)
(* PyRaindropIO, pyraindropio/models.py: the rate-limited fetcher          *)
(* (fetch_response), the Session's collection cache, and the paginated     *)
(* search generator of a Collection with its worker pool and Raindrop      *)
(* cache, and the Highlight records.  Threads are the caller of            *)
(* Session.get_collection_by_id ("m"), the consumer of each search         *)
(* generator ("s") and the pool tasks ("t").                               *)
(***************************************************************************)
EXTENDS Integers, Sequences, FiniteSets, TLC

(* ------------------------------ bounds -------------------------------- *)
\* tasks submitted to worker pools, over all searches
MaxTasks == 2
\* largest "count" the remote service declares for the collection
MaxCount == 3
\* largest raindrop identifier the remote service returns
MaxItemId == 2
\* unsuccessful (rate-limited or non-200) responses the service gives
MaxBad == 2
\* transport faults (request raises, or the body does not decode)
MaxFaults == 1
\* calls of Session.get_collection_by_id
MaxGetCalls == 2
\* worker threads of one search's pool (Session's max_threads argument)
MaxThreads == 2
\* largest retry-after value the service sends
MaxWait == 1
\* highlights the service returns for one raindrop
MaxHl == 1

(* ---------------------------- environments --------------------------- *)
\* What the callers and the remote service do in one run: the number of
\* get_collection_by_id calls, of unsuccessful responses, of transport
\* faults, of search generators, of submitted tasks, the numbers of
\* highlights a raindrop has, whether a search may start while another is in
\* progress, the identifiers the service returns, whether a consumer may
\* close a search before it is exhausted, and whether the caller builds a
\* Highlight.  The families of runs:
\* a flaky service behind one search of one task; two searches run one after
\* another, with faults; two overlapping searches of two tasks in all, of a
\* well-behaved service whose raindrops have one highlight each; two searches
\* of three tasks in all, run one after another, of a collection that holds
\* one raindrop; a caller that only builds a Highlight from a record and
\* reads it.
Environments ==
    { [gets |-> MaxGetCalls, bad |-> MaxBad, faults |-> 1, searches |-> 1,
       tasks |-> 1, hls |-> 0..MaxHl, overlap |-> FALSE, items |-> 1..MaxItemId,
       close |-> FALSE, highlight |-> FALSE],
      [gets |-> 1, bad |-> 0, faults |-> MaxFaults, searches |-> 2,
       tasks |-> MaxTasks, hls |-> {1}, overlap |-> FALSE, items |-> 1..MaxItemId,
       close |-> FALSE, highlight |-> FALSE],
      [gets |-> 1, bad |-> 0, faults |-> 0, searches |-> 2,
       tasks |-> 2, hls |-> {1}, overlap |-> TRUE, items |-> 1..MaxItemId,
       close |-> TRUE, highlight |-> FALSE],
      [gets |-> 1, bad |-> 0, faults |-> 0, searches |-> 2,
       tasks |-> 3, hls |-> {1}, overlap |-> FALSE, items |-> {1},
       close |-> TRUE, highlight |-> FALSE],
      [gets |-> 0, bad |-> 0, faults |-> 0, searches |-> 0,
       tasks |-> 0, hls |-> {}, overlap |-> FALSE, items |-> {},
       close |-> FALSE, highlight |-> TRUE] }

(* ------------------------- program constants -------------------------- *)
\* from .constants import MAX_ITEMS_PER_PAGE: a fixed page size (scaled)
MAX_ITEMS_PER_PAGE == 2
\* wait = 10 when the response has no retry-after header
DEFAULT_WAIT == 10
\* time.sleep(int(wait)+1)
MARGIN == 1
\* response.status_code == 200
HTTP_OK == 200

max_threads == MaxThreads

None == "None"
\* the two search generators created on the collection
Searches == {1, 2}
\* names of the tasks: one more than MaxTasks, for the run of three tasks
TaskIds == 1..(MaxTasks + 1)
ItemIds == 1..MaxItemId
WaitVals == 0..MaxWait
\* the retry-after header is text: the decimal numerals of the wait values
HeaderVals == {ToString(w) : w \in WaitVals}
\* status codes the service answers with: 200 and one that is not
Statuses == {HTTP_OK, 429}

\* LOCK when no thread holds it
Free == <<"free", 0>>

M == <<"m", 0>>
S(s) == <<"s", s>>
T(t) == <<"t", t>>
Threads == {M} \cup {S(s) : s \in Searches} \cup {T(t) : t \in TaskIds}

VARIABLES
    LOCK,        \* the module-level threading.Lock: Free, or the holder
    fr,          \* per thread: its fetch_response activation
    nBad,        \* unsuccessful responses given so far
    nFault,      \* transport faults raised so far
    session,     \* Session._collections for the one identifier, and ghosts
    mpc,         \* get_collection_by_id: position of the caller
    coll,        \* the Collection object (count, _raindrops)
    spc,         \* per search generator: position
    sst,         \* per search generator: locals (page, pages, ...) and ghosts
    tasks,       \* futures submitted so far, in submission order
    objs,        \* Raindrop objects, named by the task that created them
    http,        \* ghost: HTTP requests issued, per operation (call or search)
    overlapped,  \* ghost: a search started while another was in progress
    env,         \* what the environment does in this run (constant)
    highlight    \* a Highlight object: _highlight_dict, and the color last read

vars == <<LOCK, fr, nBad, nFault, session, mpc, coll, spc, sst, tasks, objs, http, overlapped, env, highlight>>

(* --------------------------- fetch_response --------------------------- *)
\* A response: status code and the retry-after header (None when absent).
Responses == [status : Statuses, ra : {None} \cup HeaderVals]

\* mutant: the success test looks at the status code only
IsSuccessStatusOnly(r) == r.status = HTTP_OK

\* all(['retry-after' not in response.headers, response.status_code == 200])
IsSuccess(r) == r.ra = None /\ r.status = HTTP_OK

\* a Python value that is an int (10) or a str (the header's text)
PyInt(n) == [type |-> "int", int |-> n, str |-> ""]

PyStr(x) == [type |-> "str", int |-> 0, str |-> x]

\* int(wait): an int is itself, a numeral is the number it writes
IntOf(x) == IF x.type = "int" THEN x.int ELSE CHOOSE n \in 0..(MaxWait + 1) : ToString(n) = x.str

\* wait = response.headers.get('retry-after'); if wait is None: wait = 10
WaitOf(r) == IF r.ra = None THEN PyInt(DEFAULT_WAIT) ELSE PyStr(r.ra)

\* mutant: the sleep without the second of margin
SleepTimeNoMargin(wait) == IntOf(wait)

\* time.sleep(int(wait)+1)
SleepTime(wait) == IntOf(wait) + MARGIN

\* no response yet
NoResp == [status |-> 0, ra |-> None]

\* resp, wait: the locals; rl, slept, fails, lines: ghosts (the last
\* unsuccessful response, the time slept since it, the unsuccessful attempts
\* and the lines logged in this call)
IdleFrame == [pc |-> "idle", resp |-> NoResp, wait |-> PyInt(0), rl |-> NoResp, slept |-> 0,
              fails |-> 0, lines |-> 0]

\* the activation at the call of fetch_response
CallFrame == [IdleFrame EXCEPT !.pc = "req"]

\* the operation a thread works for: the call, or the search (its tasks included)
Owner(th) == IF th[1] = "t" THEN S(tasks[th[2]].owner) ELSE th

\* the frame after response = request(...) answered r: lines 24-35
Answered(f, r) ==
    IF IsSuccess(r)
    THEN [f EXCEPT !.pc = "ret", !.resp = r]
    ELSE [f EXCEPT !.pc = "lock", !.resp = r, !.wait = WaitOf(r), !.rl = r, !.slept = 0,
                   !.fails = @ + 1]

\* response = request(...) answered; the success test of lines 24-28
fetch_response_request(th) ==
    /\ fr[th].pc = "req"
    /\ \E r \in Responses :
         /\ IsSuccess(r) \/ nBad < env.bad
         /\ nBad' = IF IsSuccess(r) THEN nBad ELSE nBad + 1
         /\ fr' = [fr EXCEPT ![th] = Answered(@, r)]
    /\ http' = [http EXCEPT ![Owner(th)] = @ + 1]
    /\ UNCHANGED <<LOCK, nFault, session, mpc, coll, spc, sst, tasks, objs, overlapped, env, highlight>>

\* mutant: the exception is caught in the loop and the request retried
RaisedRetried(f) == [f EXCEPT !.pc = "sleep"]

\* the frame after request(...) raised: nothing in fetch_response catches it
Raised(f) == [f EXCEPT !.pc = "exc"]

\* request(...) raises a transport fault
fetch_response_raise(th) ==
    /\ fr[th].pc = "req"
    /\ nFault < env.faults
    /\ nFault' = nFault + 1
    /\ fr' = [fr EXCEPT ![th] = Raised(@)]
    /\ http' = [http EXCEPT ![Owner(th)] = @ + 1]
    /\ UNCHANGED <<LOCK, nBad, session, mpc, coll, spc, sst, tasks, objs, overlapped, env, highlight>>

\* mutant: the message is printed without waiting for the lock
fetch_response_nolock(th) ==
    /\ fr[th].pc = "lock"
    /\ LOCK' = th
    /\ fr' = [fr EXCEPT ![th] = [@ EXCEPT !.pc = "print"]]
    /\ UNCHANGED <<nBad, nFault, session, mpc, coll, spc, sst, tasks, objs, http, overlapped, env, highlight>>

\* with LOCK: (entering)
fetch_response_lock(th) ==
    /\ fr[th].pc = "lock"
    /\ LOCK = Free
    /\ LOCK' = th
    /\ fr' = [fr EXCEPT ![th] = [@ EXCEPT !.pc = "print"]]
    /\ UNCHANGED <<nBad, nFault, session, mpc, coll, spc, sst, tasks, objs, http, overlapped, env, highlight>>

\* print(msg), leaving the with block
fetch_response_print(th) ==
    /\ fr[th].pc = "print"
    /\ LOCK = th
    /\ LOCK' = Free
    /\ fr' = [fr EXCEPT ![th] = [@ EXCEPT !.pc = "sleep", !.lines = @ + 1]]
    /\ UNCHANGED <<nBad, nFault, session, mpc, coll, spc, sst, tasks, objs, http, overlapped, env, highlight>>

\* mutant: the sleep never ends
SleptForever(f) == [f EXCEPT !.pc = "sleep"]

\* the frame after time.sleep(int(wait)+1): the next turn of while True
Slept(f) == [f EXCEPT !.pc = "req", !.slept = @ + SleepTime(f.wait)]

\* time.sleep(int(wait)+1)
fetch_response_sleep(th) ==
    /\ fr[th].pc = "sleep"
    /\ fr' = [fr EXCEPT ![th] = Slept(@)]
    /\ UNCHANGED <<LOCK, nBad, nFault, session, mpc, coll, spc, sst, tasks, objs, http, overlapped, env, highlight>>

(* ------------------------------ Session ------------------------------- *)
\* no search generator is between its first next() and its end
Active(s) == spc[s] \notin {"none", "created", "done", "raised", "closed"}

\* a Collection as __init__ leaves it: _raindrops = {}, _dict = collection_dict
NewCollection(count) == [count |-> count, raindrops |-> [i \in ItemIds |-> 0]]

\* mutant: the cache of collections is not consulted
get_collection_by_id_uncached ==
    /\ mpc = "idle"
    /\ session.calls < env.gets
    /\ \A s \in Searches : ~Active(s)
    /\ session' = [session EXCEPT !.calls = @ + 1, !.hit = FALSE, !.fetches = 1,
                                  !.result = "running", !.ret = 0]
    /\ mpc' = "fetch"
    /\ fr' = [fr EXCEPT ![M] = CallFrame]
    /\ http' = [http EXCEPT ![M] = 0]
    /\ UNCHANGED <<LOCK, nBad, nFault, coll, spc, sst, tasks, objs, overlapped, env, highlight>>

\* get_collection_by_id: the test of line 49; a hit returns the cached object.
\* The calls are made one after another, by the thread that creates the
\* searches, while no search is in progress.
get_collection_by_id_call ==
    /\ mpc = "idle"
    /\ session.calls < env.gets
    /\ \A s \in Searches : ~Active(s)
    /\ IF session.cached # 0
       THEN /\ session' = [session EXCEPT !.calls = @ + 1, !.hit = TRUE, !.fetches = 0,
                                          !.result = "returned", !.ret = session.cached]
            /\ UNCHANGED <<mpc, fr>>
       ELSE /\ session' = [session EXCEPT !.calls = @ + 1, !.hit = FALSE, !.fetches = 1,
                                          !.result = "running", !.ret = 0]
            /\ mpc' = "fetch"
            /\ fr' = [fr EXCEPT ![M] = CallFrame]
    /\ http' = [http EXCEPT ![M] = 0]
    /\ UNCHANGED <<LOCK, nBad, nFault, coll, spc, sst, tasks, objs, overlapped, env, highlight>>

\* lines 55-60: the body decodes, the Collection is built, cached and returned
get_collection_by_id_return ==
    /\ mpc = "fetch"
    /\ fr[M].pc = "ret"
    /\ \E count \in 0..MaxCount :
         coll' = NewCollection(count)
    /\ session' = [session EXCEPT !.made = @ + 1, !.cached = session.made + 1,
                                  !.result = "returned", !.ret = session.made + 1]
    /\ mpc' = "idle"
    /\ fr' = [fr EXCEPT ![M] = IdleFrame]
    /\ UNCHANGED <<LOCK, nBad, nFault, spc, sst, tasks, objs, http, overlapped, env, highlight>>

\* response.json() raises on a body that does not decode (line 55)
get_collection_by_id_json_raise ==
    /\ mpc = "fetch"
    /\ fr[M].pc = "ret"
    /\ nFault < env.faults
    /\ nFault' = nFault + 1
    /\ session' = [session EXCEPT !.result = "raised", !.raised = @ + 1]
    /\ mpc' = "idle"
    /\ fr' = [fr EXCEPT ![M] = IdleFrame]
    /\ UNCHANGED <<LOCK, nBad, coll, spc, sst, tasks, objs, http, overlapped, env, highlight>>

\* the fault raised in fetch_response leaves get_collection_by_id (line 50)
get_collection_by_id_raise ==
    /\ mpc = "fetch"
    /\ fr[M].pc = "exc"
    /\ session' = [session EXCEPT !.result = "raised", !.raised = @ + 1]
    /\ mpc' = "idle"
    /\ fr' = [fr EXCEPT ![M] = IdleFrame]
    /\ UNCHANGED <<LOCK, nBad, nFault, coll, spc, sst, tasks, objs, http, overlapped, env, highlight>>

(* ------------------------- Collection.search ------------------------- *)
\* mutant: the page count rounded down
NumPagesFloor(count) == count \div MAX_ITEMS_PER_PAGE

\* mutant: one page more than the whole pages
NumPagesPlusOne(count) == (count \div MAX_ITEMS_PER_PAGE) + 1

\* math.ceil(self.count / MAX_ITEMS_PER_PAGE)
NumPages(count) == (count + MAX_ITEMS_PER_PAGE - 1) \div MAX_ITEMS_PER_PAGE

\* the sequences over ItemIds of length n
ItemSeqs(n) == [1..n -> ItemIds]

\* the 'items' a page response can hold: at most perpage of them
PageBodies == UNION {ItemSeqs(n) : n \in 0..MAX_ITEMS_PER_PAGE}

\* the tasks of search s, in submission order
TasksOf(s) == {t \in 1..Len(tasks) : tasks[t].owner = s}

Finished(t) == tasks[t].pc \in {"done", "failed"}

Running(t) == tasks[t].pc \notin {"queued", "done", "failed"}

\* Raindrop.id: self._dict['_id'], the identifier of the record it holds now
RaindropId(o) == tasks[objs[o].dict].item

\* page, pages, cur: the page loop's index and range and the future in hand;
\* fetched, left: ghosts (the pages requested, and the tasks that had not
\* finished when the sequence ended)
IdleSearch == [page |-> 0, pages |-> 0, cur |-> 0, fetched |-> <<>>, left |-> 0]

\* the tasks of search s that have not finished
Unfinished(s) == Cardinality({t \in TasksOf(s) : ~Finished(t)})

\* mutant: search is an ordinary function that calls the first fetch at once
search_call_eager(s) ==
    /\ spc[s] = "none"
    /\ s <= env.searches
    /\ session.cached # 0
    /\ mpc = "idle"
    /\ \A s2 \in Searches : s2 < s => spc[s2] # "none"
    /\ sst' = [sst EXCEPT ![s] = IdleSearch]
    /\ spc' = [spc EXCEPT ![s] = "created"]
    /\ fr' = [fr EXCEPT ![S(s)] = CallFrame]
    /\ UNCHANGED <<LOCK, nBad, nFault, session, mpc, coll, tasks, objs, http, overlapped, env, highlight>>

\* search(search_str) / fetch_all_raindrops(): a generator object, nothing run.
\* search_str is only forwarded to the service in the page requests' params,
\* and the service's answers are left free, so it is not kept in the state.
search_call(s) ==
    /\ spc[s] = "none"
    /\ s <= env.searches
    /\ session.cached # 0
    /\ mpc = "idle"
    /\ \A s2 \in Searches : s2 < s => spc[s2] # "none"
    /\ sst' = [sst EXCEPT ![s] = IdleSearch]
    /\ spc' = [spc EXCEPT ![s] = "created"]
    /\ UNCHANGED <<LOCK, fr, nBad, nFault, session, mpc, coll, tasks, objs, http, overlapped, env, highlight>>

\* the generator's locals once the pool exists and range(...) is evaluated
Started(st, count) == [st EXCEPT !.pages = NumPages(count), !.page = 0]

\* first next(): the pool is entered, range(0, ceil(count / P)) is evaluated,
\* and the first page's fetch_response is called (or the loop is empty)
search_start(s) ==
    /\ spc[s] = "created"
    /\ env.overlap \/ \A s2 \in Searches : ~Active(s2)
    /\ LET st == Started(sst[s], coll.count) IN
         IF st.pages = 0
         THEN /\ spc' = [spc EXCEPT ![s] = "wait"]
              /\ sst' = [sst EXCEPT ![s] = st]
              /\ fr' = fr
         ELSE /\ spc' = [spc EXCEPT ![s] = "page"]
              /\ sst' = [sst EXCEPT ![s] = [st EXCEPT !.fetched = Append(@, 0)]]
              /\ fr' = [fr EXCEPT ![S(s)] = CallFrame]
    /\ overlapped' = (overlapped \/ \E s2 \in Searches \ {s} : Active(s2))
    /\ UNCHANGED <<LOCK, nBad, nFault, session, mpc, coll, tasks, objs, http, env, highlight>>

\* a future as executor.submit leaves it; hlq: the highlight records of the
\* task's response not yet appended; got: ghost, all of them
NewTask(s, item) == [owner |-> s, item |-> item, pc |-> "queued", obj |-> 0,
                     taken |-> FALSE, yields |-> 0, hlq |-> <<>>, got |-> <<>>]

\* the futures list after one task per item of the page is submitted
Submitted(fs, s, items) == fs \o [k \in 1..Len(items) |-> NewTask(s, items[k])]

\* mutant: the results of a page are handed over before the next page is
\* fetched
search_page_then_yield(s) ==
    /\ spc[s] = "page"
    /\ fr[S(s)].pc = "ret"
    /\ \E items \in PageBodies :
         /\ Len(tasks) + Len(items) <= env.tasks
         /\ \A k \in 1..Len(items) : items[k] \in env.items
         /\ tasks' = Submitted(tasks, s, items)
    /\ sst' = sst
    /\ fr' = [fr EXCEPT ![S(s)] = IdleFrame]
    /\ spc' = [spc EXCEPT ![s] = "wait"]
    /\ UNCHANGED <<LOCK, nBad, nFault, session, mpc, coll, objs, http, overlapped, env, highlight>>

\* lines 189-195, then the next turn of the page loop or the as_completed loop
search_page(s) ==
    /\ spc[s] = "page"
    /\ fr[S(s)].pc = "ret"
    /\ \E items \in PageBodies :
         /\ Len(tasks) + Len(items) <= env.tasks
         /\ \A k \in 1..Len(items) : items[k] \in env.items
         /\ tasks' = Submitted(tasks, s, items)
    /\ IF sst[s].page + 1 < sst[s].pages
       THEN /\ sst' = [sst EXCEPT ![s] = [@ EXCEPT !.page = @ + 1,
                                                     !.fetched = Append(@, sst[s].page + 1)]]
            /\ fr' = [fr EXCEPT ![S(s)] = CallFrame]
            /\ spc' = spc
       ELSE /\ sst' = [sst EXCEPT ![s] = [@ EXCEPT !.page = @ + 1]]
            /\ fr' = [fr EXCEPT ![S(s)] = IdleFrame]
            /\ spc' = [spc EXCEPT ![s] = "wait"]
    /\ UNCHANGED <<LOCK, nBad, nFault, session, mpc, coll, objs, http, overlapped, env, highlight>>

\* response.json() raises on a page body that does not decode (line 189)
search_json_raise(s) ==
    /\ spc[s] = "page"
    /\ fr[S(s)].pc = "ret"
    /\ nFault < env.faults
    /\ nFault' = nFault + 1
    /\ fr' = [fr EXCEPT ![S(s)] = IdleFrame]
    /\ spc' = [spc EXCEPT ![s] = "closing_exc"]
    /\ sst' = [sst EXCEPT ![s] = [@ EXCEPT !.left = Unfinished(s)]]
    /\ UNCHANGED <<LOCK, nBad, session, mpc, coll, tasks, objs, http, overlapped, env, highlight>>

\* the fault raised in the page's fetch_response leaves the with block
search_raise(s) ==
    /\ spc[s] = "page"
    /\ fr[S(s)].pc = "exc"
    /\ fr' = [fr EXCEPT ![S(s)] = IdleFrame]
    /\ spc' = [spc EXCEPT ![s] = "closing_exc"]
    /\ sst' = [sst EXCEPT ![s] = [@ EXCEPT !.left = Unfinished(s)]]
    /\ UNCHANGED <<LOCK, nBad, nFault, session, mpc, coll, tasks, objs, http, overlapped, env, highlight>>

\* as_completed hands over a finished future; future.result() returns the
\* Raindrop and the consumer enters with LOCK (line 199)
search_as_completed(s) ==
    /\ spc[s] = "wait"
    /\ LOCK = Free
    /\ \E t \in TasksOf(s) :
         /\ tasks[t].pc = "done"
         /\ ~tasks[t].taken
         /\ tasks' = [tasks EXCEPT ![t] = [@ EXCEPT !.taken = TRUE]]
         /\ sst' = [sst EXCEPT ![s] = [@ EXCEPT !.cur = t]]
    /\ LOCK' = S(s)
    /\ spc' = [spc EXCEPT ![s] = "insert"]
    /\ UNCHANGED <<fr, nBad, nFault, session, mpc, coll, objs, http, overlapped, env, highlight>>

\* as_completed hands over a future whose task raised: future.result() raises
search_result_raise(s) ==
    /\ spc[s] = "wait"
    /\ \E t \in TasksOf(s) :
         /\ tasks[t].pc = "failed"
         /\ ~tasks[t].taken
         /\ tasks' = [tasks EXCEPT ![t] = [@ EXCEPT !.taken = TRUE]]
    /\ spc' = [spc EXCEPT ![s] = "closing_exc"]
    /\ sst' = [sst EXCEPT ![s] = [@ EXCEPT !.left = Unfinished(s)]]
    /\ UNCHANGED <<LOCK, fr, nBad, nFault, session, mpc, coll, objs, http, overlapped, env, highlight>>

\* self._raindrops[raindrop.id] = raindrop
Inserted(cache, o) == [cache EXCEPT ![RaindropId(o)] = o]

\* mutant: the yield is inside the with LOCK block
search_insert_yield_locked(s) ==
    /\ spc[s] = "insert"
    /\ LOCK = S(s)
    /\ coll' = [coll EXCEPT !.raindrops = Inserted(@, tasks[sst[s].cur].obj)]
    /\ tasks' = [tasks EXCEPT ![sst[s].cur] = [@ EXCEPT !.yields = @ + 1]]
    /\ LOCK' = LOCK
    /\ spc' = [spc EXCEPT ![s] = "yielded"]
    /\ UNCHANGED <<fr, nBad, nFault, session, mpc, sst, objs, http, overlapped, env, highlight>>

\* line 200 under the lock, the lock released, then yield raindrop
search_insert_yield(s) ==
    /\ spc[s] = "insert"
    /\ LOCK = S(s)
    /\ coll' = [coll EXCEPT !.raindrops = Inserted(@, tasks[sst[s].cur].obj)]
    /\ tasks' = [tasks EXCEPT ![sst[s].cur] = [@ EXCEPT !.yields = @ + 1]]
    /\ LOCK' = Free
    /\ spc' = [spc EXCEPT ![s] = "yielded"]
    /\ UNCHANGED <<fr, nBad, nFault, session, mpc, sst, objs, http, overlapped, env, highlight>>

\* the consumer asks for the next element: the generator resumes after yield
search_resume(s) ==
    /\ spc[s] = "yielded"
    /\ spc' = [spc EXCEPT ![s] = "wait"]
    /\ sst' = [sst EXCEPT ![s] = [@ EXCEPT !.cur = 0]]
    /\ UNCHANGED <<LOCK, fr, nBad, nFault, session, mpc, coll, tasks, objs, http, overlapped, env, highlight>>

\* the consumer closes the generator (close(), or it is dropped) while it is
\* suspended at the yield: GeneratorExit is raised there and leaves the with
\* block
search_close(s) ==
    /\ spc[s] = "yielded"
    /\ env.close
    /\ spc' = [spc EXCEPT ![s] = "closing_exit"]
    /\ sst' = [sst EXCEPT ![s] = [@ EXCEPT !.cur = 0, !.left = Unfinished(s)]]
    /\ UNCHANGED <<LOCK, fr, nBad, nFault, session, mpc, coll, tasks, objs, http, overlapped, env, highlight>>

\* as_completed is exhausted: the with block is left normally
search_exhausted(s) ==
    /\ spc[s] = "wait"
    /\ \A t \in TasksOf(s) : tasks[t].taken
    /\ spc' = [spc EXCEPT ![s] = "closing"]
    /\ UNCHANGED <<LOCK, fr, nBad, nFault, session, mpc, coll, sst, tasks, objs, http, overlapped, env, highlight>>

\* how the generator ends once the with block is left
Ended(pc) ==
    IF pc = "closing" THEN "done" ELSE IF pc = "closing_exc" THEN "raised" ELSE "closed"

\* mutant: the pool is shut down without waiting for its tasks
search_shutdown_nowait(s) ==
    /\ spc[s] \in {"closing", "closing_exc", "closing_exit"}
    /\ spc' = [spc EXCEPT ![s] = Ended(spc[s])]
    /\ UNCHANGED <<LOCK, fr, nBad, nFault, session, mpc, coll, sst, tasks, objs, http, overlapped, env, highlight>>

\* ThreadPoolExecutor.__exit__: shutdown(wait=True) returns once every
\* submitted task has run; then StopIteration, or the exception goes on
search_shutdown(s) ==
    /\ spc[s] \in {"closing", "closing_exc", "closing_exit"}
    /\ \A t \in TasksOf(s) : Finished(t)
    /\ spc' = [spc EXCEPT ![s] = Ended(spc[s])]
    /\ UNCHANGED <<LOCK, fr, nBad, nFault, session, mpc, coll, sst, tasks, objs, http, overlapped, env, highlight>>

(* ---------------- create_or_update_raindrop_from_raindrop_dict --------- *)
NoRaindrop == [dict |-> 0, hl |-> <<>>]

\* Raindrop.__init__ up to the fetch: _highlights = [], _dict = raindrop_dict
NewRaindrop(t) == [dict |-> t, hl |-> <<>>]

\* mutant: the pool starts a thread per task, whatever max_workers is
CanStartNoLimit(t) ==
    /\ tasks[t].pc = "queued"
    /\ \A u \in TasksOf(tasks[t].owner) : u < t => tasks[u].pc # "queued"

\* a worker of the owner's pool is free and t is the next task of its queue
CanStart(t) ==
    /\ tasks[t].pc = "queued"
    /\ \A u \in TasksOf(tasks[t].owner) : u < t => tasks[u].pc # "queued"
    /\ Cardinality({u \in TasksOf(tasks[t].owner) : Running(u)}) < max_threads

\* a worker takes the task and enters with LOCK (line 166)
create_or_update_lock(t) ==
    /\ CanStart(t)
    /\ LOCK = Free
    /\ LOCK' = T(t)
    /\ tasks' = [tasks EXCEPT ![t] = [@ EXCEPT !.pc = "lookup"]]
    /\ UNCHANGED <<fr, nBad, nFault, session, mpc, coll, spc, sst, objs, http, overlapped, env, highlight>>

\* mutant: the lookup returns a cached Raindrop whatever its identifier
LookupAnyCached(cache, item) ==
    IF \A i \in DOMAIN cache : cache[i] = 0
    THEN 0
    ELSE cache[CHOOSE i \in DOMAIN cache : cache[i] # 0]

\* self._raindrops.get(raindrop_dict['_id'])
Lookup(cache, item) == cache[item]

\* line 167 and the lock released; on a miss the Raindrop is constructed up to
\* its fetch_highlights request (lines 170, 221-228, 286), on a hit line 172
create_or_update_lookup(t) ==
    /\ tasks[t].pc = "lookup"
    /\ LOCK = T(t)
    /\ LOCK' = Free
    /\ LET r == Lookup(coll.raindrops, tasks[t].item) IN
         IF r = 0
         THEN /\ objs' = [objs EXCEPT ![t] = NewRaindrop(t)]
              /\ tasks' = [tasks EXCEPT ![t] = [@ EXCEPT !.pc = "fetch", !.obj = t]]
              /\ fr' = [fr EXCEPT ![T(t)] = CallFrame]
         ELSE /\ tasks' = [tasks EXCEPT ![t] = [@ EXCEPT !.pc = "update", !.obj = r]]
              /\ UNCHANGED <<objs, fr>>
    /\ UNCHANGED <<nBad, nFault, session, mpc, coll, spc, sst, http, overlapped, env, highlight>>

\* Raindrop.update_dict: self._dict = new_raindrop_dict (line 227)
update_dict(t) ==
    /\ tasks[t].pc = "update"
    /\ objs' = [objs EXCEPT ![tasks[t].obj] = [@ EXCEPT !.dict = t]]
    /\ tasks' = [tasks EXCEPT ![t] = [@ EXCEPT !.pc = "reset"]]
    /\ UNCHANGED <<LOCK, fr, nBad, nFault, session, mpc, coll, spc, sst, http, overlapped, env, highlight>>

\* fetch_highlights: self._highlights = [] and the call of fetch_response
fetch_highlights_reset(t) ==
    /\ tasks[t].pc = "reset"
    /\ objs' = [objs EXCEPT ![tasks[t].obj] = [@ EXCEPT !.hl = <<>>]]
    /\ tasks' = [tasks EXCEPT ![t] = [@ EXCEPT !.pc = "fetch"]]
    /\ fr' = [fr EXCEPT ![T(t)] = CallFrame]
    /\ UNCHANGED <<LOCK, nBad, nFault, session, mpc, coll, spc, sst, http, overlapped, env, highlight>>

\* the highlights of one /raindrop/{id} response, named by the fetching task
HighlightsOf(t, n) == [k \in 1..n |-> <<t, k>>]

\* data = response.json(); the loop of line 294 starts (or is empty: return)
fetch_highlights_json(t) ==
    /\ tasks[t].pc = "fetch"
    /\ fr[T(t)].pc = "ret"
    /\ \E n \in env.hls :
         tasks' = [tasks EXCEPT ![t] = [@ EXCEPT !.hlq = HighlightsOf(t, n),
                                                  !.got = HighlightsOf(t, n),
                                                  !.pc = IF n = 0 THEN "done" ELSE "append"]]
    /\ fr' = [fr EXCEPT ![T(t)] = IdleFrame]
    /\ UNCHANGED <<LOCK, nBad, nFault, session, mpc, coll, spc, sst, objs, http, overlapped, env, highlight>>

\* self._highlights.append(Highlight(highlight_dict)); after the last, return
fetch_highlights_append(t) ==
    /\ tasks[t].pc = "append"
    /\ objs' = [objs EXCEPT ![tasks[t].obj] = [@ EXCEPT !.hl = Append(@, Head(tasks[t].hlq))]]
    /\ tasks' = [tasks EXCEPT ![t] = [@ EXCEPT !.hlq = Tail(@),
                                                !.pc = IF Len(tasks[t].hlq) = 1 THEN "done" ELSE "append"]]
    /\ UNCHANGED <<LOCK, fr, nBad, nFault, session, mpc, coll, spc, sst, http, overlapped, env, highlight>>

\* response.json() raises in fetch_highlights (line 292): the future fails
fetch_highlights_json_raise(t) ==
    /\ tasks[t].pc = "fetch"
    /\ fr[T(t)].pc = "ret"
    /\ nFault < env.faults
    /\ nFault' = nFault + 1
    /\ tasks' = [tasks EXCEPT ![t] = [@ EXCEPT !.pc = "failed"]]
    /\ fr' = [fr EXCEPT ![T(t)] = IdleFrame]
    /\ UNCHANGED <<LOCK, nBad, session, mpc, coll, spc, sst, objs, http, overlapped, env, highlight>>

\* the fault raised in fetch_response leaves the task: the future fails
fetch_highlights_raise(t) ==
    /\ tasks[t].pc = "fetch"
    /\ fr[T(t)].pc = "exc"
    /\ tasks' = [tasks EXCEPT ![t] = [@ EXCEPT !.pc = "failed"]]
    /\ fr' = [fr EXCEPT ![T(t)] = IdleFrame]
    /\ UNCHANGED <<LOCK, nBad, nFault, session, mpc, coll, spc, sst, objs, http, overlapped, env, highlight>>

(* ----------------------------- Highlight ------------------------------ *)
\* the colours the service gives a highlight
Colors == {"yellow", "red", "blue"}

\* a highlight record of a /raindrop/{id} response: a dict that has an '_id'
\* and may or may not have a 'color'
HighlightDicts ==
    {("_id" :> i) : i \in 1..MaxHl}
    \cup {("_id" :> i) @@ ("color" :> c) : i \in 1..MaxHl, c \in Colors}

\* dict.get(key, default)
DictGet(d, key, default) == IF key \in DOMAIN d THEN d[key] ELSE default

\* mutant: the property reads the field with no default
color_no_default(d) == DictGet(d, "color", None)

\* Highlight.color: self._highlight_dict.get('color', 'yellow')
color(d) == DictGet(d, "color", "yellow")

\* no Highlight built yet; "unread": color was not read since the dict was set
NoHighlight == [built |-> FALSE, dict |-> ("_id" :> 0), color |-> "unread"]

\* Highlight(highlight_dict): self._highlight_dict = highlight_dict
Highlight_init ==
    /\ env.highlight
    /\ ~highlight.built
    /\ \E d \in HighlightDicts :
         highlight' = [built |-> TRUE, dict |-> d, color |-> "unread"]
    /\ UNCHANGED <<LOCK, fr, nBad, nFault, session, mpc, coll, spc, sst, tasks, objs, http, overlapped, env>>

\* Highlight.update_dict: self._highlight_dict = new_highlight_dict
Highlight_update_dict ==
    /\ highlight.built
    /\ \E d \in HighlightDicts :
         highlight' = [highlight EXCEPT !.dict = d, !.color = "unread"]
    /\ UNCHANGED <<LOCK, fr, nBad, nFault, session, mpc, coll, spc, sst, tasks, objs, http, overlapped, env>>

\* the caller reads highlight.color
Highlight_color ==
    /\ highlight.built
    /\ highlight' = [highlight EXCEPT !.color = color(highlight.dict)]
    /\ UNCHANGED <<LOCK, fr, nBad, nFault, session, mpc, coll, spc, sst, tasks, objs, http, overlapped, env>>

(* --------------------------- specification ---------------------------- *)
Init ==
    /\ LOCK = Free
    /\ fr = [th \in Threads |-> IdleFrame]
    /\ nBad = 0
    /\ nFault = 0
    /\ session = [cached |-> 0, made |-> 0, calls |-> 0, hit |-> FALSE, fetches |-> 0,
                  result |-> "none", ret |-> 0, raised |-> 0]
    /\ mpc = "idle"
    /\ coll = NewCollection(0)
    /\ spc = [s \in Searches |-> "none"]
    /\ sst = [s \in Searches |-> IdleSearch]
    /\ tasks = <<>>
    /\ objs = [t \in TaskIds |-> NoRaindrop]
    /\ http = [th \in {M} \cup {S(s) : s \in Searches} |-> 0]
    /\ overlapped = FALSE
    /\ env \in Environments
    /\ highlight = NoHighlight

Next ==
    \/ \E th \in Threads : fetch_response_request(th)
    \/ \E th \in Threads : fetch_response_raise(th)
    \/ \E th \in Threads : fetch_response_lock(th)
    \/ \E th \in Threads : fetch_response_print(th)
    \/ \E th \in Threads : fetch_response_sleep(th)
    \/ get_collection_by_id_call
    \/ get_collection_by_id_return
    \/ get_collection_by_id_json_raise
    \/ get_collection_by_id_raise
    \/ \E s \in Searches : search_call(s)
    \/ \E s \in Searches : search_start(s)
    \/ \E s \in Searches : search_page(s)
    \/ \E s \in Searches : search_json_raise(s)
    \/ \E s \in Searches : search_raise(s)
    \/ \E s \in Searches : search_as_completed(s)
    \/ \E s \in Searches : search_result_raise(s)
    \/ \E s \in Searches : search_insert_yield(s)
    \/ \E s \in Searches : search_resume(s)
    \/ \E s \in Searches : search_close(s)
    \/ \E s \in Searches : search_exhausted(s)
    \/ \E s \in Searches : search_shutdown(s)
    \/ \E t \in 1..Len(tasks) : create_or_update_lock(t)
    \/ \E t \in 1..Len(tasks) : create_or_update_lookup(t)
    \/ \E t \in 1..Len(tasks) : update_dict(t)
    \/ \E t \in 1..Len(tasks) : fetch_highlights_reset(t)
    \/ \E t \in 1..Len(tasks) : fetch_highlights_json(t)
    \/ \E t \in 1..Len(tasks) : fetch_highlights_append(t)
    \/ \E t \in 1..Len(tasks) : fetch_highlights_json_raise(t)
    \/ \E t \in 1..Len(tasks) : fetch_highlights_raise(t)
    \/ Highlight_init
    \/ Highlight_update_dict
    \/ Highlight_color

Spec == Init /\ [][Next]_vars

(* ------------------------------ fairness ------------------------------ *)
\* the steps of thread th in fetch_response that enter and leave 'with LOCK'
FetcherLockStep(th) == fetch_response_lock(th) \/ fetch_response_print(th)

\* the steps of a pool worker that enter and leave 'with LOCK' (line 166)
WorkerLockStep(t) ==
    /\ t \in 1..Len(tasks)
    /\ create_or_update_lock(t) \/ create_or_update_lookup(t)

\* the steps of a consumer that enter and leave 'with LOCK' (line 199)
ConsumerLockStep(s) == search_as_completed(s) \/ search_insert_yield(s)

\* a thread that waits for LOCK gets it when it is free, and a thread inside
\* 'with LOCK' runs on to the end of the block: threading.Lock and the
\* interpreter's thread switching
LockSteps ==
    /\ \A th \in Threads : WF_vars(FetcherLockStep(th))
    /\ \A t \in TaskIds : WF_vars(WorkerLockStep(t))
    /\ \A s \in Searches : WF_vars(ConsumerLockStep(s))

\* the steps of thread th inside fetch_response: the service answers the
\* request, the message is printed, the sleep ends
FetcherStep(th) ==
    \/ fetch_response_request(th)
    \/ fetch_response_lock(th)
    \/ fetch_response_print(th)
    \/ fetch_response_sleep(th)

\* the steps of the pool worker that runs task t
WorkerStep(t) ==
    /\ t \in 1..Len(tasks)
    /\ \/ create_or_update_lock(t)
       \/ create_or_update_lookup(t)
       \/ update_dict(t)
       \/ fetch_highlights_reset(t)
       \/ fetch_highlights_json(t)
       \/ fetch_highlights_append(t)
       \/ fetch_highlights_raise(t)

\* the steps of the generator's code between two of the consumer's pulls
ConsumerStep(s) ==
    \/ search_page(s)
    \/ search_raise(s)
    \/ search_as_completed(s)
    \/ search_result_raise(s)
    \/ search_insert_yield(s)
    \/ search_exhausted(s)
    \/ search_shutdown(s)

\* the steps of get_collection_by_id after its fetch_response
CallerStep == get_collection_by_id_return \/ get_collection_by_id_raise

\* the consumer pulls: a generator it created is started, and after an
\* element the next one is asked for
Pull(s) == search_start(s) \/ search_resume(s)

\* every thread that can run does (at any moment a thread has one step to
\* take), and the consumers keep pulling
ThreadSteps ==
    /\ \A th \in Threads : WF_vars(FetcherStep(th))
    /\ \A t \in TaskIds : WF_vars(WorkerStep(t))
    /\ \A s \in Searches : WF_vars(ConsumerStep(s))
    /\ WF_vars(CallerStep)
    /\ \A s \in Searches : WF_vars(Pull(s))

\* the lock's steps only: the callers and the other threads may stop anywhere
LockSpec == Spec /\ LockSteps

\* fair scheduling of all threads, and consumers that keep pulling
FairSpec == Spec /\ ThreadSteps

(* ------------------------------ claims -------------------------------- *)
\* ceil(c / p) as the least n with n * p >= c
CeilDiv(c, p) == CHOOSE n \in 0..c : n * p >= c /\ \A k \in 0..c : k * p >= c => n <= k

\* how often search s has yielded a Raindrop for identifier i (tasks 1..n)
RECURSIVE YieldsUpTo(_, _, _)
YieldsUpTo(s, i, n) ==
    IF n = 0 THEN 0
    ELSE YieldsUpTo(s, i, n - 1)
         + (IF tasks[n].owner = s /\ tasks[n].item = i THEN tasks[n].yields ELSE 0)

YieldsFor(s, i) == YieldsUpTo(s, i, Len(tasks))

\* the pages of search s were fetched once each, in the order 0 .. ceil(C/P)-1
PagesFetchedOnce(s) ==
    sst[s].fetched = [k \in 1..CeilDiv(coll.count, MAX_ITEMS_PER_PAGE) |-> k - 1]

\* no identifier was returned twice by the pages of search s
NoDupWithin(s) ==
    \A t, u \in TasksOf(s) : t # u => tasks[t].item # tasks[u].item

\* C1 as stated: an exhausted search has fetched pages 0 .. ceil(C/P)-1 once
\* each and has yielded every identifier its pages returned exactly once.
C1_AsStated ==
    \A s \in Searches : spc[s] = "done" =>
        /\ PagesFetchedOnce(s)
        /\ \A i \in ItemIds :
             YieldsFor(s, i) = IF \E t \in TasksOf(s) : tasks[t].item = i THEN 1 ELSE 0

\* C1 (amended): an exhausted search has fetched pages 0 .. ceil(C/P)-1 once
\* each and has yielded exactly one Raindrop, of that identifier, for every
\* item its pages returned: an identifier the pages returned k times is
\* yielded k times, hence once when the pages' identifiers are distinct.
C1_PagesAndYields ==
    \A s \in Searches : spc[s] = "done" =>
        /\ PagesFetchedOnce(s)
        /\ \A t \in TasksOf(s) :
             tasks[t].yields = 1 /\ RaindropId(tasks[t].obj) = tasks[t].item
        /\ \A i \in ItemIds :
             YieldsFor(s, i) = Cardinality({t \in TasksOf(s) : tasks[t].item = i})
        /\ NoDupWithin(s) =>
             \A i \in ItemIds :
               YieldsFor(s, i) = IF \E t \in TasksOf(s) : tasks[t].item = i THEN 1 ELSE 0

\* C1 witness: a search over two pages is exhausted after yielding two
\* different identifiers.
C1_Witness ==
    \E s \in Searches :
        /\ spc[s] = "done"
        /\ Len(sst[s].fetched) = 2
        /\ \E t, u \in TasksOf(s) : tasks[t].item # tasks[u].item

\* C2 as stated: while searches run one after another, an identifier the
\* cache maps to a Raindrop object stays mapped to that same object.
C2_IdentityStable ==
    [][~overlapped' =>
         \A i \in ItemIds :
           coll.raindrops[i] # 0 => coll'.raindrops[i] = coll.raindrops[i]]_vars

\* every search the caller made has ended normally (and there is one)
AllDone ==
    /\ spc[1] = "done"
    /\ \A s \in Searches : spc[s] \in {"none", "done"}

\* C3 as stated: after two overlapping searches, neither of which got an
\* identifier twice, have both finished, every Raindrop either yielded is the
\* object the cache holds for its identifier.
C3_OneObjectPerId ==
    (/\ overlapped
     /\ AllDone
     /\ \A s \in Searches : NoDupWithin(s))
    => \A t \in 1..Len(tasks) : tasks[t].obj = coll.raindrops[tasks[t].item]

\* the sleep the claim expects after an unsuccessful response r
ExpectedSleep(r) ==
    IF r.ra # None
    THEN (CHOOSE w \in WaitVals : ToString(w) = r.ra) + 1
    ELSE 10 + 1

\* C4: between an unsuccessful response and the next attempt (or the return)
\* fetch_response has slept w+1 seconds when the response carried
\* retry-after = w and 11 seconds when it carried none.
C4_SleepsBeforeRetry ==
    \A th \in Threads :
        (fr[th].fails > 0 /\ fr[th].pc \in {"req", "ret", "exc"})
        => fr[th].slept = ExpectedSleep(fr[th].rl)

\* C4 witness: fetch_response has returned after a response with the largest
\* retry-after value.
C4_Witness ==
    \E th \in Threads :
        /\ fr[th].pc = "ret"
        /\ fr[th].rl.ra = ToString(MaxWait)
        /\ fr[th].slept = MaxWait + 1

\* C5: fetch_response returns only a 200 response without retry-after; after
\* any other response it goes on to the next attempt, and it raises only when
\* the request itself raised.
C5_OnlySuccessReturned ==
    [][\A th \in Threads :
         /\ fr'[th].pc = "ret" => (fr'[th].resp.status = 200 /\ fr'[th].resp.ra = None)
         /\ (fr[th].pc = "req" /\ fr'[th].pc = "lock")
            => (fr'[th].resp.status # 200 \/ fr'[th].resp.ra # None)
         /\ fr[th].pc \in {"lock", "print", "sleep"}
            => fr'[th].pc \in {"lock", "print", "sleep", "req"}
         /\ (fr'[th].pc = "exc" /\ fr[th].pc # "exc")
            => (fr[th].pc = "req" /\ nFault' = nFault + 1)]_vars

\* C5 witness: a call returned after as many unsuccessful responses in a row
\* as the service gives, the last one a 200 with retry-after.
C5_Witness ==
    \E th \in Threads :
        /\ fr[th].pc = "ret"
        /\ fr[th].fails = MaxBad
        /\ fr[th].rl.status = 200

\* C6: for a collection of declared count 0 a search issues no HTTP request,
\* submits nothing, yields nothing and ends normally.
C6_EmptyCollection ==
    (session.cached # 0 /\ coll.count = 0) =>
        \A s \in Searches :
            /\ http[S(s)] = 0
            /\ TasksOf(s) = {}
            /\ sst[s].fetched = <<>>
            /\ spc[s] \in {"none", "created", "wait", "closing", "done"}

\* C6 witness: a search of a collection of count 0 has ended.
C6_Witness ==
    /\ session.cached # 0
    /\ coll.count = 0
    /\ \E s \in Searches : spc[s] = "done"

\* the fetch of page k >= 1 of search s raised (the page loop was not left)
PageFaulted(s) ==
    /\ spc[s] = "raised"
    /\ sst[s].page >= 1
    /\ sst[s].page < sst[s].pages

\* C7 as stated: after the fetch of a page k >= 1 raised, the items of the
\* pages fetched before are in the collection's cache.
C7_PartialResultsCached ==
    \A s \in Searches : PageFaulted(s) =>
        \A t \in TasksOf(s) : tasks[t].pc = "done" => coll.raindrops[tasks[t].item] # 0

\* the operations that a transport fault has ended or is ending
FaultedOperations ==
    Cardinality({th \in Threads : fr[th].pc = "exc"})
    + Cardinality({t \in 1..Len(tasks) : tasks[t].pc = "failed"})
    + Cardinality({s \in Searches : spc[s] \in {"closing_exc", "raised"}
                                     /\ sst[s].page < sst[s].pages})
    + session.raised

\* C8: every transport fault ends the operation it occurred in: the frame that
\* raised is left without a further request, log line or sleep, no fault is
\* absorbed by a retry, a failed task makes its search raise, and a
\* get_collection_by_id that raised has cached nothing.
C8_FaultsPropagate ==
    [][/\ nFault' = FaultedOperations'
       /\ session'.result = "raised" => session'.cached = 0
       /\ \A s \in Searches :
            spc'[s] \in {"closing_exc", "raised"} =>
              \/ sst'[s].page < sst'[s].pages
              \/ \E t \in TasksOf(s)' : tasks'[t].pc = "failed" /\ tasks'[t].taken
       /\ \A th \in Threads :
            /\ (fr'[th].pc = "exc" /\ fr[th].pc # "exc") =>
                 /\ fr[th].pc = "req"
                 /\ fr'[th].lines = fr[th].lines
                 /\ fr'[th].slept = fr[th].slept
                 /\ fr'[th].fails = fr[th].fails
            /\ (fr[th].pc = "exc" /\ fr'[th] # fr[th]) =>
                 /\ fr'[th] = IdleFrame
                 /\ http' = http
                 /\ nFault' = nFault]_vars

\* C8 witness: a search has raised because the highlights fetch of one of its
\* tasks raised.
C8_Witness ==
    \E s \in Searches :
        /\ spc[s] = "raised"
        /\ sst[s].page = sst[s].pages
        /\ \E t \in TasksOf(s) : tasks[t].pc = "failed"

\* C9: at most one Collection is ever built; a call that finds none cached
\* makes one fetch_response call, and once one is cached every call returns
\* that object without any HTTP request.
C9_CollectionCachedOnce ==
    [][/\ session'.made <= 1
       /\ session'.fetches = IF session'.hit THEN 0 ELSE IF session'.calls = 0 THEN 0 ELSE 1
       /\ session'.hit => http'[M] = 0
       /\ session'.result = "returned" => (session'.ret # 0 /\ session'.ret = session'.cached)
       /\ session.cached # 0 =>
            /\ session'.cached = session.cached
            /\ session'.calls # session.calls => session'.hit]_vars

\* C9 witness: a second call has returned the cached Collection.
C9_Witness ==
    /\ session.calls = 2
    /\ session.hit
    /\ session.result = "returned"
    /\ session.made = 1

\* no search has run any of its body yet
NoneStarted == \A s \in Searches : spc[s] \in {"none", "created"}

\* C10: a generator that was created and not yet asked for an element has
\* issued no request and submitted nothing, creating it changes neither the
\* cache nor any Raindrop, and before any search has started the cache of the
\* Collection is empty.
C10_Lazy ==
    [][/\ \A s \in Searches :
            spc'[s] = "created" =>
              /\ http'[S(s)] = 0
              /\ TasksOf(s)' = {}
              /\ fr'[S(s)].pc = "idle"
              /\ spc[s] # "created" => (coll' = coll /\ objs' = objs /\ tasks' = tasks)
       /\ NoneStarted' =>
            /\ \A i \in ItemIds : coll'.raindrops[i] = 0
            /\ \A t \in TaskIds : objs'[t] = NoRaindrop]_vars

\* C10 witness: a generator is created and not started while the cache holds
\* a Raindrop of an earlier search.
C10_Witness ==
    \E s \in Searches :
        /\ spc[s] = "created"
        /\ \E i \in ItemIds : coll.raindrops[i] # 0

\* C11: the color read from a Highlight is its record's color field when the
\* record has one and 'yellow' when it has none; it is never an absent value.
C11_ColorDefault ==
    (highlight.built /\ highlight.color # "unread") =>
        /\ highlight.color # None
        /\ "color" \in DOMAIN highlight.dict => highlight.color = highlight.dict["color"]
        /\ "color" \notin DOMAIN highlight.dict => highlight.color = "yellow"

\* C11 witness: color was read from a Highlight whose record has no color
\* field.
C11_Witness ==
    /\ highlight.built
    /\ "color" \notin DOMAIN highlight.dict
    /\ highlight.color = "yellow"

\* the task's lookup missed and it constructed a Raindrop of its own
Created(t) == tasks[t].obj = t

\* C12 as stated: the lookup and the insert that follows are one critical
\* section, so of the tasks that handle one identifier at most one creates a
\* Raindrop (no transport fault involved).
C12_AtomicGetOrCreate ==
    nFault = 0 =>
        \A t, u \in 1..Len(tasks) :
            (t # u /\ tasks[t].item = tasks[u].item) => ~(Created(t) /\ Created(u))

\* a create or an update of Raindrop o is between its start and its return
InProgress(o) ==
    \E t \in 1..Len(tasks) :
        tasks[t].obj = o /\ tasks[t].pc \in {"update", "reset", "fetch", "append"}

\* C13 as stated: while no create or update of a Raindrop is in progress (and
\* none has failed), its highlight list is the list one completed fetch for
\* it returned.
C13_HighlightsOfOneFetch ==
    nFault = 0 =>
        \A o \in TaskIds :
            (objs[o] # NoRaindrop /\ ~InProgress(o)) =>
                \E t \in 1..Len(tasks) :
                    /\ tasks[t].obj = o
                    /\ tasks[t].pc = "done"
                    /\ objs[o].hl = tasks[t].got

\* the consumer thread of search s is fetching a page
ConsumerFetchesPage(s) == spc[s] = "page" /\ fr[S(s)].pc # "idle"

\* the consumer thread of search s is inserting into the cache
ConsumerInserts(s) == spc[s] = "insert"

\* the tasks of search s that a worker of its pool is running
RunningOf(s) == {t \in TasksOf(s) : Running(t)}

AllPagesFetched(s) == sst[s].page = sst[s].pages

C16_ShutdownWaits ==
    \A s \in Searches :
        spc[s] \in {"done", "raised", "closed"} => \A t \in TasksOf(s) : Finished(t)

\* C16 witness: a search that the consumer closed while tasks of its pool had
\* not finished has ended.
C16_Witness ==
    \E s \in Searches :
        /\ spc[s] = "closed"
        /\ sst[s].left > 0

\* the threads that are inside a critical section of LOCK
InCritical ==
    {th \in Threads : fr[th].pc = "print"}
    \cup {T(t) : t \in {u \in 1..Len(tasks) : tasks[u].pc = "lookup"}}
    \cup {S(s) : s \in {r \in Searches : spc[r] = "insert"}}

\* C17: in every fetch_response call one line is logged per unsuccessful
\* attempt, before that attempt's sleep, and none for a successful attempt or
\* a raised one; a thread prints only while it holds LOCK, so no two threads
\* print at the same time and none prints during a cache lookup or insert.
C17_OneLinePerFailure ==
    /\ \A th \in Threads :
         /\ fr[th].pc \in {"lock", "print"} =>
              (fr[th].lines = fr[th].fails - 1 /\ fr[th].slept = 0)
         /\ fr[th].pc \in {"idle", "req", "sleep", "ret", "exc"} =>
              fr[th].lines = fr[th].fails
         /\ fr[th].pc = "print" => (LOCK # Free /\ LOCK = th)
    /\ Cardinality(InCritical) <= 1

\* C17 witness: the consumer of a search is printing its retry message while
\* a worker that also got an unsuccessful response waits for the lock.
C17_Witness ==
    \E s \in Searches :
        /\ fr[S(s)].pc = "print"
        /\ \E t \in TasksOf(s) : fr[T(t)].pc = "lock"

\* C19: every Raindrop in the cache is stored under the identifier of the
\* record it holds now.
C19_KeyIsId ==
    \A i \in ItemIds :
        coll.raindrops[i] # 0 => RaindropId(coll.raindrops[i]) = i

\* C19 witness: a cached Raindrop holds the record of a later task, which
\* updated it in place, and that task's result was inserted again.
C19_Witness ==
    \E i \in ItemIds :
        /\ coll.raindrops[i] # 0
        /\ objs[coll.raindrops[i]].dict # coll.raindrops[i]
        /\ tasks[objs[coll.raindrops[i]].dict].yields = 1

\* no request raises, every body decodes, and no consumer closes its search
NoFaultNoClose ==
    /\ nFault = 0
    /\ \A s \in Searches : spc[s] \notin {"closing_exit", "closed"}

\* C18: when no transport fault occurs (the unsuccessful responses are
\* finitely many) every fetch_response call that was made returns, and every
\* search whose consumer keeps pulling is exhausted.
C18_Terminates ==
    []NoFaultNoClose =>
        /\ \A th \in Threads : (fr[th].pc \in {"req", "lock", "print", "sleep"}) ~> (fr[th].pc = "ret")
        /\ \A s \in Searches : (spc[s] = "created") ~> (spc[s] = "done")

\* C18 witness: a fetch_response call has returned after as many unsuccessful
\* responses as the service gives, in a search that is exhausted later.
C18_Witness ==
    \E s \in Searches :
        /\ spc[s] = "done"
        /\ nBad = MaxBad
        /\ nFault = 0
        /\ TasksOf(s) # {}

\* LOCK is held by the one thread that is at a print, a cache lookup or a
\* cache insert, and that thread has no request in flight, is not sleeping
\* and is not suspended at a yield
LockHeldAroundOneStep ==
    /\ LOCK = Free => InCritical = {}
    /\ LOCK # Free =>
         /\ InCritical = {LOCK}
         /\ fr[LOCK].pc \in {"idle", "print"}
         /\ LOCK[1] = "s" => spc[LOCK[2]] # "yielded"
         /\ fr[LOCK].pc = "idle" =>
              \/ LOCK[1] = "s" /\ spc[LOCK[2]] = "insert"
              \/ LOCK[1] = "t" /\ tasks[LOCK[2]].pc = "lookup"

\* C20: LOCK is held only around one print, lookup or insert; whoever holds
\* it releases it, and whoever waits for it (a fetcher with a message to
\* print, a worker with a task to start, a consumer with a result to insert)
\* does not wait forever, whatever the other threads and the callers do.
C20_LockDiscipline ==
    /\ []LockHeldAroundOneStep
    /\ (LOCK # Free) ~> (LOCK = Free)
    /\ \A th \in Threads : (fr[th].pc = "lock") ~> (fr[th].pc = "print")
    /\ \A t \in TaskIds :
         (t \in 1..Len(tasks) /\ CanStart(t)) ~> (t \in 1..Len(tasks) /\ tasks[t].pc # "queued")
    /\ \A s \in Searches :
         (spc[s] = "wait" /\ \E t \in TasksOf(s) : tasks[t].pc = "done" /\ ~tasks[t].taken)
         ~> (spc[s] # "wait")

\* C20 witness: a consumer holds LOCK for its insert while a worker of the
\* other search, which can start its task, is kept waiting for the lock.
C20_Witness ==
    \E s \in Searches :
        /\ spc[s] = "insert"
        /\ LOCK = S(s)
        /\ \E t \in 1..Len(tasks) : tasks[t].owner # s /\ CanStart(t)

====
